---- MODULE Spec2Model ----
(***************************************************************************)
(* A model of src/slack.go of ci-chat-bot: the option parser, the link     *)
(* stripper, the image-input parser and the job notification path.         *)
(*                                                                         *)
(* Strings are sequences of symbols.  For option strings a symbol is one   *)
(* lexeme (an allow-list word such as "gcp", a free word, "," or "=");     *)
(* for chat text a symbol is one character.  Go's 0-based indexes and      *)
(* half-open slices are kept (Index, Slice, SliceFrom).                    *)
(***************************************************************************)
EXTENDS Integers, Sequences, FiniteSets, TLC

VARIABLES
    pc,             \* position of the function or handler under way
    options,        \* parseOptions: the raw option string
    params,         \* parseOptions: the map being classified and returned
    platform,       \* parseOptions: the platform recorded so far / returned
    architecture,   \* parseOptions: the architecture recorded so far / returned
    optErr,         \* parseOptions: the returned error (NoErr when nil)
    unvisited,      \* parseOptions: keys the range loop has not produced yet
    text,           \* stripLinks / parseImageInput: the argument
    caller,         \* which of the two functions was called
    input,          \* stripLinks: the remaining input
    b,              \* stripLinks: the strings.Builder contents
    parts,          \* parseImageInput: the returned list
    imgErr,         \* parseImageInput: the returned error ("" when nil)
    delivered,      \* notification: the Job as the manager handed it over
    job,            \* notification: the Job as notifyJob saw it
    path,           \* notification: "feed" (jobResponder) or "auth"
    clock,          \* notification: what time.Now() returned to the handler
    replies,        \* notification: response.Reply calls, in order
    uploads,        \* notification: UploadFile calls, in order
    request,        \* command: the slacker.Request of the command under way
    from,           \* command: the parsed first input list
    to,             \* command: the parsed second input list (test upgrade)
    calls,          \* command: the JobRequests given to LaunchJobForUser, and
                    \* the other calls of the JobManager
    readers         \* workflowConfig.mutex: read locks held

optVars  == <<options, params, platform, architecture, optErr, unvisited>>
textVars == <<text, caller, input, b, parts, imgErr>>
jobVars  == <<delivered, job, path, clock, replies, uploads>>
cmdVars  == <<request, from, to, calls, readers>>
vars     == <<pc, optVars, textVars, jobVars, cmdVars>>

----------------------------------------------------------------------------
(* Bounds of the model.                                                    *)

MaxItems == 3
MaxLen == 5
MaxTime == 2
MaxPieces == 2
MaxHeld == 2

----------------------------------------------------------------------------
(* Go string primitives.                                                   *)

\* strings.Index(s, c) for a one-symbol c: 0-based, -1 when absent.
Index(s, c) ==
    IF \E i \in 1..Len(s) : s[i] = c
    THEN (CHOOSE i \in 1..Len(s) : s[i] = c /\ \A j \in 1..(i-1) : s[j] # c) - 1
    ELSE -1

\* s[lo:hi]
Slice(s, lo, hi) == SubSeq(s, lo + 1, hi)

\* s[lo:]
SliceFrom(s, lo) == SubSeq(s, lo + 1, Len(s))

\* strings.Split(s, c) for a one-symbol separator: never empty, Split("") = [""].
RECURSIVE Split(_, _)
Split(s, c) ==
    LET i == Index(s, c)
    IN  IF i = -1 THEN <<s>>
        ELSE <<Slice(s, 0, i)>> \o Split(SliceFrom(s, i + 1), c)

\* strings.SplitN(s, "=", 2): at most two pieces, cut at the first separator.
SplitN2(s, c) ==
    LET i == Index(s, c)
    IN  IF i = -1 THEN <<s>> ELSE <<Slice(s, 0, i), SliceFrom(s, i + 1)>>

\* strings.TrimSpace over the one whitespace character of the alphabet.
RECURSIVE TrimLeft(_)
TrimLeft(s) == IF s # <<>> /\ Head(s) = " " THEN TrimLeft(Tail(s)) ELSE s
RECURSIVE TrimRight(_)
TrimRight(s) ==
    IF s # <<>> /\ s[Len(s)] = " " THEN TrimRight(SubSeq(s, 1, Len(s) - 1)) ELSE s
TrimSpace(s) == TrimRight(TrimLeft(s))

\* All sequences over S of length at most n.
RECURSIVE SeqsUpTo(_, _)
SeqsUpTo(S, n) ==
    IF n = 0 THEN {<<>>}
    ELSE LET shorter == SeqsUpTo(S, n - 1)
         IN  shorter \cup {Append(s, x) : s \in shorter, x \in S}

\* strings.Join(items, sep)
RECURSIVE Join(_, _)
Join(items, sep) ==
    IF items = <<>> THEN <<>>
    ELSE IF Len(items) = 1 THEN items[1]
    ELSE items[1] \o sep \o Join(Tail(items), sep)

----------------------------------------------------------------------------
(* The Job record of the external manager, as far as slack.go reads it.    *)

JobTypeLaunch == "launch"
JobTypeWorkflowLaunch == "workflow-launch"
JobTypeTest == "test"

\* prowapiv1.ProwJobState
PendingState == "pending"
SuccessState == "success"
FailureState == "failure"
AbortedState == "aborted"
ErrorState == "error"

\* No Job: the handler has not obtained or rendered one.
NoJob ==
    [Mode |-> "", LegacyConfig |-> FALSE, Failure |-> "", URL |-> "",
     Credentials |-> "", State |-> "", RequestedChannel |-> <<>>,
     RequestedBy |-> "", OriginalMessage |-> "", PasswordSnippet |-> "",
     RequestedAt |-> 0, ExpiresAt |-> 0]

\* No command: no handler is under way.
NoRequest ==
    [command |-> "", channel |-> <<>>, name |-> <<>>, image |-> <<>>,
     to |-> <<>>, options |-> <<>>, parameters |-> <<>>]

----------------------------------------------------------------------------
(* The option parser: parseOptions, src/slack.go 606-641.                  *)

\* The closed allow-lists (owned by configuration, not by slack.go).
supportedPlatforms == << <<"gcp">>, <<"aws">> >>
supportedArchitectures == << <<"amd64">>, <<"arm64">> >>
supportedParameters == << <<"test">> >>

contains(arr, s) == \E i \in 1..Len(arr) : arr[i] = s

NoErr == [msg |-> "", opt |-> <<>>]
ErrOnePlatform == [msg |-> "you may only specify one platform in options", opt |-> <<>>]
ErrOneArchitecture ==
    [msg |-> "you may only specify one architecture in options", opt |-> <<>>]
ErrUnrecognized(opt) == [msg |-> "unrecognized option", opt |-> opt]

\* The shared helper: split on commas, split each item on the first "=",
\* last write wins on duplicate keys; a bare token maps to the empty value.
paramsFromAnnotation(value) ==
    LET items == Split(value, ",")
        kv(i) == SplitN2(items[i], "=")
        key(i) == kv(i)[1]
        val(i) == IF Len(kv(i)) = 1 THEN <<>> ELSE kv(i)[2]
        last(k) == CHOOSE i \in 1..Len(items) :
                       key(i) = k /\ \A j \in (i+1)..Len(items) : key(j) # k
    IN  [values |-> [k \in {key(i) : i \in 1..Len(items)} |-> val(last(k))],
         err |-> FALSE]

\* delete(params, opt)
delete(m, opt) == [k \in DOMAIN m \ {opt} |-> m[k]]

\* The result of an early "return "", "", nil, err".
parseOptionsFail(e) ==
    [platform |-> <<>>, architecture |-> <<>>, params |-> <<>>, err |-> e]

\* case contains(supportedPlatforms, opt)
visitPlatformOverwrites(st, opt) ==
    [st EXCEPT !.platform = opt, !.params = delete(st.params, opt)]
visitPlatform(st, opt) ==
    IF Len(st.platform) > 0 THEN parseOptionsFail(ErrOnePlatform)
    ELSE [st EXCEPT !.platform = opt, !.params = delete(st.params, opt)]

\* case contains(supportedArchitectures, opt)
visitArchitectureKeepsKey(st, opt) ==
    IF Len(st.architecture) > 0 THEN parseOptionsFail(ErrOneArchitecture)
    ELSE [st EXCEPT !.architecture = opt]
visitArchitecture(st, opt) ==
    IF Len(st.architecture) > 0 THEN parseOptionsFail(ErrOneArchitecture)
    ELSE [st EXCEPT !.architecture = opt, !.params = delete(st.params, opt)]

\* case opt == ""
visitEmpty(st, opt) == [st EXCEPT !.params = delete(st.params, opt)]

\* default:
visitDefaultIgnores(st, opt) == st
visitDefault(st, opt) == parseOptionsFail(ErrUnrecognized(opt))

\* One iteration of "for opt := range params": the switch.
parseOptionsVisit(st, opt) ==
    IF contains(supportedPlatforms, opt) THEN visitPlatform(st, opt)
    ELSE IF contains(supportedArchitectures, opt) THEN visitArchitecture(st, opt)
    ELSE IF opt = <<>> THEN visitEmpty(st, opt)
    ELSE IF contains(supportedParameters, opt) THEN st
    ELSE visitDefault(st, opt)

\* After the loop: the defaults and the successful return.
parseOptionsDefaultsSwapped(st) ==
    [st EXCEPT !.platform = IF Len(st.platform) = 0 THEN <<"amd64">> ELSE @,
               !.architecture = IF Len(st.architecture) = 0 THEN <<"gcp">> ELSE @]
parseOptionsDefaults(st) ==
    [st EXCEPT !.platform = IF Len(st.platform) = 0 THEN <<"gcp">> ELSE @,
               !.architecture = IF Len(st.architecture) = 0 THEN <<"amd64">> ELSE @]

optState == [platform |-> platform, architecture |-> architecture,
             params |-> params, err |-> optErr]

\* The option items the inputs are joined from.
OptionItems ==
    { <<>>, <<"gcp">>, <<"aws">>, <<"amd64">>, <<"arm64">>, <<"test">>,
      <<"test", "=", "e2e">>, <<"test", "=">>, <<"bogus">>, <<"=", "e2e">>,
      <<"gcp", "=", "e2e">>, <<"test", "=", "e2e", "=", "e2e">> }

OptionStrings == { Join(items, <<",">>) : items \in SeqsUpTo(OptionItems, MaxItems) }

InitOptions ==
    /\ pc = "parseOptions"
    /\ options \in OptionStrings
    /\ params = <<>>
    /\ platform = <<>>
    /\ architecture = <<>>
    /\ optErr = NoErr
    /\ unvisited = {}
    /\ text = <<>> /\ caller = "" /\ input = <<>> /\ b = <<>>
    /\ parts = <<>> /\ imgErr = ""
    /\ delivered = NoJob /\ job = NoJob /\ path = "" /\ clock = 0
    /\ replies = <<>> /\ uploads = <<>>
    /\ request = NoRequest /\ from = <<>> /\ to = <<>> /\ calls = <<>> /\ readers = 0

\* params, err := paramsFromAnnotation(options); the error return of 608-610.
ParseOptionsBegin ==
    /\ pc = "parseOptions"
    /\ LET r == paramsFromAnnotation(options)
       IN  IF r.err
           THEN /\ pc' = "optionsDone"
                /\ optErr' = [msg |-> "options could not be parsed", opt |-> <<>>]
                /\ UNCHANGED <<params, unvisited>>
           ELSE /\ pc' = "optionsLoop"
                /\ params' = r.values
                /\ unvisited' = DOMAIN r.values
                /\ UNCHANGED optErr
    /\ UNCHANGED <<options, platform, architecture, textVars, jobVars, cmdVars>>

\* One iteration of the range loop.  Go produces every entry that is still in
\* the map and has not been produced, in an unspecified order.
ParseOptionsLoop ==
    /\ pc = "optionsLoop"
    /\ \E opt \in unvisited \cap DOMAIN params :
         LET st == parseOptionsVisit(optState, opt)
         IN  /\ platform' = st.platform
             /\ architecture' = st.architecture
             /\ params' = st.params
             /\ optErr' = st.err
             /\ unvisited' = unvisited \ {opt}
             /\ pc' = IF st.err # NoErr THEN "optionsDone" ELSE "optionsLoop"
    /\ UNCHANGED <<options, textVars, jobVars, cmdVars>>

\* The loop is over: defaults, and return platform, architecture, params, nil.
ParseOptionsReturn ==
    /\ pc = "optionsLoop"
    /\ unvisited \cap DOMAIN params = {}
    /\ LET st == parseOptionsDefaults(optState)
       IN  /\ platform' = st.platform
           /\ architecture' = st.architecture
           /\ params' = st.params
           /\ optErr' = st.err
    /\ pc' = "optionsDone"
    /\ UNCHANGED <<options, unvisited, textVars, jobVars, cmdVars>>

NextOptions == ParseOptionsBegin \/ ParseOptionsLoop \/ ParseOptionsReturn

SpecOptions == InitOptions /\ [][NextOptions]_vars

----------------------------------------------------------------------------
(* Claims about parseOptions (checked under SpecOptions).                 *)

\* The intermediate mapping of the raw option string, and its key classes.
Parsed == paramsFromAnnotation(options).values
PlatformKeys == {k \in DOMAIN Parsed : contains(supportedPlatforms, k)}
ArchitectureKeys == {k \in DOMAIN Parsed : contains(supportedArchitectures, k)}
UnknownKeys ==
    {k \in DOMAIN Parsed :
        /\ k # <<>>
        /\ ~contains(supportedPlatforms, k)
        /\ ~contains(supportedArchitectures, k)
        /\ ~contains(supportedParameters, k)}

\* Occurrences of platform / architecture tokens in the raw option string:
\* the comma-separated items whose key part is in the allow-list.
RawKeys == [i \in 1..Len(Split(options, ",")) |-> SplitN2(Split(options, ",")[i], "=")[1]]
PlatformOccurrences ==
    Cardinality({i \in DOMAIN RawKeys : contains(supportedPlatforms, RawKeys[i])})
ArchitectureOccurrences ==
    Cardinality({i \in DOMAIN RawKeys : contains(supportedArchitectures, RawKeys[i])})

OptionsSucceeded == pc = "optionsDone" /\ optErr = NoErr

\* C1: whenever parseOptions succeeds, in every visiting order, the returned
\* mapping has no platform key, no architecture key and no empty key: every
\* remaining key is a supported generic parameter.
C1_NoSelectorKeyReturned ==
    OptionsSucceeded =>
        \A k \in DOMAIN params :
            /\ ~contains(supportedPlatforms, k)
            /\ ~contains(supportedArchitectures, k)
            /\ k # <<>>
            /\ contains(supportedParameters, k)

\* A successful parse of a string holding a platform, an architecture and a
\* generic parameter.
C1_Witness ==
    /\ OptionsSucceeded
    /\ PlatformKeys # {}
    /\ ArchitectureKeys # {}
    /\ DOMAIN params # {}

\* C2 (as claimed): more than one occurrence of a platform (architecture)
\* token in the raw string, distinct or repeated, always ends in the
\* only-one-platform (only-one-architecture) error.  Stated for the option
\* strings that have no other failure cause, where there is no doubt about
\* which error the claim means.
C2_AnySecondOccurrenceFails ==
    (pc = "optionsDone" /\ UnknownKeys = {}) =>
        /\ (PlatformOccurrences > 1 /\ ArchitectureOccurrences <= 1)
                => optErr = ErrOnePlatform
        /\ (ArchitectureOccurrences > 1 /\ PlatformOccurrences <= 1)
                => optErr = ErrOneArchitecture

\* C2 (amended): two distinct platform (architecture) tokens always make
\* parseOptions fail, with the only-one-platform (only-one-architecture) error
\* when the string has no other failure cause; the same token repeated is one
\* key of the mapping and never trips that error.
C2_TwoDistinctTokensFail ==
    pc = "optionsDone" =>
        /\ Cardinality(PlatformKeys) > 1 =>
             /\ optErr # NoErr
             /\ (UnknownKeys = {} /\ Cardinality(ArchitectureKeys) <= 1)
                    => optErr = ErrOnePlatform
        /\ Cardinality(ArchitectureKeys) > 1 =>
             /\ optErr # NoErr
             /\ (UnknownKeys = {} /\ Cardinality(PlatformKeys) <= 1)
                    => optErr = ErrOneArchitecture
        /\ Cardinality(PlatformKeys) <= 1 => optErr # ErrOnePlatform
        /\ Cardinality(ArchitectureKeys) <= 1 => optErr # ErrOneArchitecture

\* Two distinct platforms were given and the platform error came back.
C2_Witness ==
    /\ pc = "optionsDone"
    /\ Cardinality(PlatformKeys) = 2
    /\ optErr = ErrOnePlatform

\* C3: a non-empty key in none of the three allow-lists always makes
\* parseOptions fail, in every visiting order; an empty key is no failure cause
\* (a string with one and with no other cause succeeds).
C3_UnrecognizedKeyFails ==
    pc = "optionsDone" =>
        /\ UnknownKeys # {} => optErr # NoErr
        /\ ( /\ <<>> \in DOMAIN Parsed
             /\ UnknownKeys = {}
             /\ Cardinality(PlatformKeys) <= 1
             /\ Cardinality(ArchitectureKeys) <= 1 ) => optErr = NoErr

\* An unrecognized key next to a platform: the unrecognized-option error.
C3_Witness ==
    /\ pc = "optionsDone"
    /\ UnknownKeys # {}
    /\ PlatformKeys # {}
    /\ optErr.msg = "unrecognized option"

\* C4: on success the platform is the single platform token present or "gcp",
\* the architecture the single architecture token present or "amd64", and the
\* returned mapping is the intermediate mapping restricted to its generic
\* parameters, values kept; "" and "gcp,test=e2e" give the stated results.
C4_ResultValues ==
    OptionsSucceeded =>
        /\ Cardinality(PlatformKeys) <= 1
        /\ Cardinality(ArchitectureKeys) <= 1
        /\ IF PlatformKeys = {} THEN platform = <<"gcp">> ELSE platform \in PlatformKeys
        /\ IF ArchitectureKeys = {} THEN architecture = <<"amd64">>
                                    ELSE architecture \in ArchitectureKeys
        /\ params = [k \in {x \in DOMAIN Parsed : contains(supportedParameters, x)}
                        |-> Parsed[k]]
        /\ options = <<>> =>
             platform = <<"gcp">> /\ architecture = <<"amd64">> /\ params = <<>>
        /\ options = <<"gcp", ",", "test", "=", "e2e">> =>
             /\ platform = <<"gcp">>
             /\ architecture = <<"amd64">>
             /\ params = (<<"test">> :> <<"e2e">>)

\* parseOptions("gcp,test=e2e") has returned.
C4_Witness ==
    /\ OptionsSucceeded
    /\ options = <<"gcp", ",", "test", "=", "e2e">>
    /\ params = (<<"test">> :> <<"e2e">>)

----------------------------------------------------------------------------
(* The link stripper and the image-input parser: stripLinks 579-604,       *)
(* parseImageInput 564-577.                                                *)

Chars == {"<", ">", "|", ",", " ", "a"}

\* One pass of the "for { ... }" loop of stripLinks over the remaining input
\* `in` and the builder `out`; done is the break.
stripLinksIterNoCloseBound(in, out) ==
    LET open == Index(in, "<")
    IN  IF open = -1 THEN [input |-> in, b |-> out \o in, done |-> TRUE]
        ELSE
        LET close == Index(SliceFrom(in, open), ">")
        IN  IF close = -1 THEN [input |-> in, b |-> out \o in, done |-> TRUE]
            ELSE
            LET pipe == Index(SliceFrom(in, open), "|")
            IN  IF pipe = -1
                THEN [input |-> SliceFrom(in, open + close + 1),
                      b |-> out \o Slice(in, 0, open)
                                \o Slice(in, open + 1, open + close),
                      done |-> FALSE]
                ELSE [input |-> SliceFrom(in, open + close + 1),
                      b |-> out \o Slice(in, 0, open)
                                \o Slice(in, open + pipe + 1, open + close),
                      done |-> FALSE]
stripLinksIter(in, out) ==
    LET open == Index(in, "<")
    IN  IF open = -1 THEN [input |-> in, b |-> out \o in, done |-> TRUE]
        ELSE
        LET close == Index(SliceFrom(in, open), ">")
        IN  IF close = -1 THEN [input |-> in, b |-> out \o in, done |-> TRUE]
            ELSE
            LET pipe == Index(SliceFrom(in, open), "|")
            IN  IF pipe = -1 \/ pipe > close
                THEN [input |-> SliceFrom(in, open + close + 1),
                      b |-> out \o Slice(in, 0, open)
                                \o Slice(in, open + 1, open + close),
                      done |-> FALSE]
                ELSE [input |-> SliceFrom(in, open + close + 1),
                      b |-> out \o Slice(in, 0, open)
                                \o Slice(in, open + pipe + 1, open + close),
                      done |-> FALSE]

\* stripLinks as a function: the loop run to its break, b.String().
RECURSIVE stripLinksFrom(_, _)
stripLinksFrom(in, out) ==
    LET r == stripLinksIter(in, out)
    IN  IF r.done THEN r.b ELSE stripLinksFrom(r.input, r.b)
stripLinks(s) == stripLinksFrom(s, <<>>)

\* parseImageInput after the link strip: split on "," and reject empty items.
ErrEmptyItem == "image inputs must not contain empty items"
parseImageInputSplitLastOnly(stripped) ==
    LET ps == Split(stripped, ",")
    IN  IF Len(ps[Len(ps)]) = 0
        THEN [parts |-> <<>>, err |-> ErrEmptyItem]
        ELSE [parts |-> ps, err |-> ""]
parseImageInputSplit(stripped) ==
    LET ps == Split(stripped, ",")
    IN  IF \E i \in 1..Len(ps) : Len(ps[i]) = 0
        THEN [parts |-> <<>>, err |-> ErrEmptyItem]
        ELSE [parts |-> ps, err |-> ""]

\* parseImageInput as a function: [parts, err].
parseImageInput(s) ==
    LET trimmed == TrimSpace(s)
    IN  IF Len(trimmed) = 0 THEN [parts |-> <<>>, err |-> ""]
        ELSE parseImageInputSplit(stripLinks(trimmed))

InitText ==
    /\ pc = "text"
    /\ text \in SeqsUpTo(Chars, MaxLen)
    /\ caller = "" /\ input = <<>> /\ b = <<>> /\ parts = <<>> /\ imgErr = ""
    /\ options = <<>> /\ params = <<>> /\ platform = <<>> /\ architecture = <<>>
    /\ optErr = NoErr /\ unvisited = {}
    /\ delivered = NoJob /\ job = NoJob /\ path = "" /\ clock = 0
    /\ replies = <<>> /\ uploads = <<>>
    /\ request = NoRequest /\ from = <<>> /\ to = <<>> /\ calls = <<>> /\ readers = 0

\* stripLinks(text) is called: var b strings.Builder.
StripLinksCall ==
    /\ pc = "text"
    /\ caller' = "stripLinks"
    /\ input' = text
    /\ b' = <<>>
    /\ pc' = "stripLoop"
    /\ UNCHANGED <<text, parts, imgErr, optVars, jobVars, cmdVars>>

\* One pass of the loop of stripLinks; at the break it returns to its caller.
StripLinksStep ==
    /\ pc = "stripLoop"
    /\ LET r == stripLinksIter(input, b)
       IN  /\ input' = r.input
           /\ b' = r.b
           /\ pc' = IF ~r.done THEN "stripLoop"
                    ELSE IF caller = "stripLinks" THEN "stripDone" ELSE "imageSplit"
    /\ UNCHANGED <<text, caller, parts, imgErr, optVars, jobVars, cmdVars>>

\* parseImageInput(text) up to its call of stripLinks: trim, and return nil, nil
\* when nothing is left.
ParseImageInputCall ==
    /\ pc = "text"
    /\ caller' = "parseImageInput"
    /\ LET trimmed == TrimSpace(text)
       IN  IF Len(trimmed) = 0
           THEN /\ pc' = "imageDone"
                /\ parts' = <<>>
                /\ imgErr' = ""
                /\ UNCHANGED <<input, b>>
           ELSE /\ pc' = "stripLoop"
                /\ input' = trimmed
                /\ b' = <<>>
                /\ UNCHANGED <<parts, imgErr>>
    /\ UNCHANGED <<text, optVars, jobVars, cmdVars>>

\* parseImageInput after stripLinks returned: the split and the empty-item check.
ParseImageInputReturn ==
    /\ pc = "imageSplit"
    /\ LET r == parseImageInputSplit(b)
       IN  /\ parts' = r.parts
           /\ imgErr' = r.err
    /\ pc' = "imageDone"
    /\ UNCHANGED <<text, caller, input, b, optVars, jobVars, cmdVars>>

NextText ==
    StripLinksCall \/ StripLinksStep \/ ParseImageInputCall \/ ParseImageInputReturn

SpecText == InitText /\ [][NextText]_vars

----------------------------------------------------------------------------
(* Claims about stripLinks and parseImageInput (checked under SpecText).   *)

\* What the claim says stripLinks returns, position by position: up to the
\* first "<" unchanged; if no ">" follows it, the rest unchanged; otherwise the
\* span is replaced by what follows its first "|", or by its whole inside when
\* it has none, and the text after the ">" is treated the same way.
RECURSIVE LinksReplaced(_)
LinksReplaced(s) ==
    IF \A i \in 1..Len(s) : s[i] # "<" THEN s
    ELSE
    LET o == CHOOSE i \in 1..Len(s) : s[i] = "<" /\ \A j \in 1..(i-1) : s[j] # "<"
    IN  IF \A j \in (o+1)..Len(s) : s[j] # ">" THEN s
        ELSE
        LET c == CHOOSE j \in (o+1)..Len(s) :
                     s[j] = ">" /\ \A k \in (o+1)..(j-1) : s[k] # ">"
            inside == SubSeq(s, o + 1, c - 1)
            bars == {k \in 1..Len(inside) : inside[k] = "|"}
            shown == IF bars = {} THEN inside
                     ELSE SubSeq(inside,
                                 (CHOOSE k \in bars : \A m \in bars : k <= m) + 1,
                                 Len(inside))
        IN  SubSeq(s, 1, o - 1) \o shown \o LinksReplaced(SubSeq(s, c + 1, Len(s)))

\* The first "<" of s has no ">" after it.
Unterminated(s) ==
    \E i \in 1..Len(s) :
        /\ s[i] = "<"
        /\ \A j \in 1..Len(s) : (j < i => s[j] # "<") /\ (j > i => s[j] # ">")

\* C5: stripLinks returns the text with every span replaced by its display
\* text or target and all else copied in order; it is the identity on a text
\* without "<" and on an unterminated text; every pass of the loop that does
\* not break strictly shortens the remaining input.
C5_StripLinksResult ==
    [][ /\ (pc' = "stripDone") =>
             /\ b' = LinksReplaced(text')
             /\ (\A i \in 1..Len(text') : text'[i] # "<") => b' = text'
             /\ Unterminated(text') => b' = text'
        /\ (pc = "stripLoop" /\ pc' = "stripLoop") => Len(input') < Len(input)
      ]_vars

\* stripLinks returned the display text of a <target|display> span, and
\* nothing of the markup.
C5_Witness ==
    /\ pc = "stripDone"
    /\ \E i \in 1..Len(text) : text[i] = "|"
    /\ \E i \in 1..Len(text) : text[i] = "<"
    /\ b # <<>>
    /\ \A i \in 1..Len(b) : b[i] = "a"
    /\ Len(b) < Len(text) - 2

\* The text is empty or all whitespace.
AllSpace(s) == \A i \in 1..Len(s) : s[i] = " "

\* The text without its leading and trailing whitespace.
Trimmed(s) ==
    IF AllSpace(s) THEN <<>>
    ELSE LET solid == {i \in 1..Len(s) : s[i] # " "}
             first == CHOOSE i \in solid : \A j \in solid : i <= j
             final == CHOOSE i \in solid : \A j \in solid : j <= i
         IN  SubSeq(s, first, final)

\* C6: parseImageInput returns the empty list and no error exactly when the
\* text is empty or all whitespace; otherwise it fails exactly when splitting
\* the link-stripped trimmed text on "," gives an empty item, and on success
\* returns those items in order, unchanged.
C6_ImageInputResult ==
    pc = "imageDone" =>
        LET items == Split(LinksReplaced(Trimmed(text)), ",")
        IN  /\ (parts = <<>> /\ imgErr = "") <=> AllSpace(text)
            /\ ~AllSpace(text) =>
                 /\ imgErr # "" <=> \E i \in 1..Len(items) : items[i] = <<>>
                 /\ imgErr = "" => parts = items

\* parseImageInput succeeded with two items, one of them a stripped link.
C6_Witness ==
    /\ pc = "imageDone"
    /\ imgErr = ""
    /\ Len(parts) = 2
    /\ \E i \in 1..Len(text) : text[i] = "<"
    /\ \A i \in 1..Len(parts) : parts[i] = <<"a">>

----------------------------------------------------------------------------
(* The notification path: jobResponder 425-445, notifyJob 447-514,         *)
(* sendKubeconfig 516-529 and the auth command 148-165.                    *)

\* time.Minute, in ticks of the model's clock (one tick is half a minute).
Minute == 2

\* d / time.Minute on Go integers: the quotient is truncated toward zero.
minutesFloored(d) == d \div Minute
minutes(d) == IF d >= 0 THEN d \div Minute ELSE -((-d) \div Minute)

\* strings.HasPrefix(channel, "D")
isDirectMessageAnyChannel(channel) == Len(channel) > 0
isDirectMessage(channel) == Len(channel) > 0 /\ channel[1] = "D"

isLaunchMode(j) == j.Mode = JobTypeLaunch \/ j.Mode = JobTypeWorkflowLaunch

\* A chat text: which format string, and the values put into it.
Message(kind) ==
    [kind |-> kind, failure |-> "", url |-> "", msg |-> "", minutes |-> 0,
     snippet |-> ""]

LegacyWarning == Message("WARNING: using legacy template based job")

\* An UploadFile call.
sendKubeconfig(channel, contents, comment, identifier) ==
    [Channels |-> <<channel>>, Content |-> contents, Filename |-> identifier,
     InitialComment |-> comment]

Output(rs, us) == [replies |-> rs, uploads |-> us]

\* The switch of jobResponder: the job is still pending, nothing to say.
pendingJobURLOnly(j) == Len(j.URL) = 0 /\ Len(j.Failure) = 0
pendingJob(j) ==
    IF isLaunchMode(j)
    THEN Len(j.Credentials) = 0 /\ Len(j.Failure) = 0
    ELSE Len(j.URL) = 0 /\ Len(j.Failure) = 0

\* notifyJob, the launch modes: lines 450-471.
notifyLaunchCredentialsFirst(j, now) ==
    LET warning == IF j.LegacyConfig THEN <<LegacyWarning>> ELSE <<>>
    IN  IF Len(j.Credentials) > 0
        THEN Output(warning,
                 <<sendKubeconfig(j.RequestedChannel, j.Credentials,
                     [Message("Your cluster is ready")
                         EXCEPT !.minutes = minutes(j.ExpiresAt - now),
                                !.snippet = j.PasswordSnippet],
                     j.RequestedAt)>>)
        ELSE IF Len(j.Failure) > 0 /\ Len(j.URL) > 0
        THEN Output(Append(warning,
                 [Message("your cluster failed to launch (logs)")
                     EXCEPT !.failure = j.Failure, !.url = j.URL]), <<>>)
        ELSE IF Len(j.Failure) > 0
        THEN Output(Append(warning,
                 [Message("your cluster failed to launch")
                     EXCEPT !.failure = j.Failure]), <<>>)
        ELSE IF Len(j.URL) > 0
        THEN Output(Append(warning,
                 [Message("cluster is still starting (logs)")
                     EXCEPT !.minutes = minutes(now - j.RequestedAt),
                            !.url = j.URL]), <<>>)
        ELSE Output(Append(warning,
                 [Message("cluster is still starting")
                     EXCEPT !.minutes = minutes(now - j.RequestedAt)]), <<>>)
notifyLaunch(j, now) ==
    LET warning == IF j.LegacyConfig THEN <<LegacyWarning>> ELSE <<>>
    IN  IF Len(j.Failure) > 0 /\ Len(j.URL) > 0
        THEN Output(Append(warning,
                 [Message("your cluster failed to launch (logs)")
                     EXCEPT !.failure = j.Failure, !.url = j.URL]), <<>>)
        ELSE IF Len(j.Failure) > 0
        THEN Output(Append(warning,
                 [Message("your cluster failed to launch")
                     EXCEPT !.failure = j.Failure]), <<>>)
        ELSE IF Len(j.Credentials) = 0 /\ Len(j.URL) > 0
        THEN Output(Append(warning,
                 [Message("cluster is still starting (logs)")
                     EXCEPT !.minutes = minutes(now - j.RequestedAt),
                            !.url = j.URL]), <<>>)
        ELSE IF Len(j.Credentials) = 0
        THEN Output(Append(warning,
                 [Message("cluster is still starting")
                     EXCEPT !.minutes = minutes(now - j.RequestedAt)]), <<>>)
        ELSE Output(warning,
                 <<sendKubeconfig(j.RequestedChannel, j.Credentials,
                     [Message("Your cluster is ready")
                         EXCEPT !.minutes = minutes(j.ExpiresAt - now),
                                !.snippet = j.PasswordSnippet],
                     j.RequestedAt)>>)

\* notifyJob, the other modes, the terminal states: lines 475-493.  returned
\* says whether a case returned.
notifyTerminalURLOnly(j) ==
    LET failed == j.State \in {FailureState, AbortedState, ErrorState}
        said(kind) == [out |-> Output(<<[Message(kind) EXCEPT !.url = j.URL,
                                            !.msg = j.OriginalMessage]>>, <<>>),
                       returned |-> TRUE]
    IN  IF Len(j.URL) > 0 /\ failed THEN said("job failed")
        ELSE IF Len(j.URL) > 0 /\ j.State = SuccessState THEN said("job succeeded")
        ELSE [out |-> Output(<<>>, <<>>), returned |-> FALSE]
notifyTerminal(j) ==
    LET failed == j.State \in {FailureState, AbortedState, ErrorState}
        said(kind) == [out |-> Output(<<[Message(kind) EXCEPT !.url = j.URL,
                                            !.msg = j.OriginalMessage]>>, <<>>),
                       returned |-> TRUE]
    IN  IF Len(j.URL) > 0
        THEN IF failed THEN said("job failed")
             ELSE IF j.State = SuccessState THEN said("job succeeded")
             ELSE [out |-> Output(<<>>, <<>>), returned |-> FALSE]
        ELSE IF failed THEN said("job failed, but no details could be retrieved")
             ELSE IF j.State = SuccessState
             THEN said("job succeded, but no details could be retrieved")
             ELSE [out |-> Output(<<>>, <<>>), returned |-> FALSE]

\* notifyJob, the other modes, the running job: lines 495-513.
notifyRunning(j, now) ==
    IF Len(j.Credentials) = 0 /\ Len(j.URL) > 0
    THEN IF Len(j.OriginalMessage) > 0
         THEN Output(<<[Message("job is running (linked)")
                           EXCEPT !.url = j.URL, !.msg = j.OriginalMessage]>>, <<>>)
         ELSE Output(<<[Message("job is running, see for details")
                           EXCEPT !.url = j.URL]>>, <<>>)
    ELSE IF Len(j.Credentials) = 0
    THEN Output(<<[Message("job is running (launched minutes ago)")
                      EXCEPT !.minutes = minutes(now - j.RequestedAt)]>>, <<>>)
    ELSE Output(<<>>,
             <<sendKubeconfig(j.RequestedChannel, j.Credentials,
                 [Message("Your job has started a cluster")
                     EXCEPT !.url = j.URL, !.snippet = j.PasswordSnippet],
                 j.RequestedAt)>>)

Then(o1, o2) == Output(o1.replies \o o2.replies, o1.uploads \o o2.uploads)

\* notifyJob: what it replies and uploads for job j at time now.
notifyJobTerminalFallsThrough(j, now) ==
    IF isLaunchMode(j) THEN notifyLaunch(j, now)
    ELSE Then(notifyTerminal(j).out, notifyRunning(j, now))
notifyJobLaunchFallsThrough(j, now) ==
    LET rest == IF notifyTerminal(j).returned THEN notifyTerminal(j).out
                ELSE notifyRunning(j, now)
    IN  IF isLaunchMode(j) THEN Then(notifyLaunch(j, now), rest) ELSE rest
notifyJob(j, now) ==
    IF isLaunchMode(j) THEN notifyLaunch(j, now)
    ELSE IF notifyTerminal(j).returned THEN notifyTerminal(j).out
    ELSE notifyRunning(j, now)

\* The Job snapshots the manager may hand over.
Times == 0..MaxTime
Channels == { <<>>, <<"D", "1">>, <<"C", "1">> }
Jobs ==
    [Mode : {JobTypeLaunch, JobTypeWorkflowLaunch, JobTypeTest},
     LegacyConfig : BOOLEAN,
     Failure : {"", "boom"},
     URL : {"", "http://logs"},
     Credentials : {"", "kubeconfig"},
     State : {PendingState, SuccessState, FailureState, AbortedState, ErrorState},
     RequestedChannel : {<<>>, <<"D", "1">>, <<"D", "2">>},
     RequestedBy : {"", "U1"},
     OriginalMessage : {"", "launch 4.1"},
     PasswordSnippet : {"", "pw"},
     RequestedAt : Times,
     ExpiresAt : Times]

InitNotify ==
    /\ pc = "listening"
    /\ delivered = NoJob /\ job = NoJob /\ path = "" /\ clock = 0
    /\ replies = <<>> /\ uploads = <<>>
    /\ request = NoRequest /\ from = <<>> /\ to = <<>> /\ calls = <<>> /\ readers = 0
    /\ options = <<>> /\ params = <<>> /\ platform = <<>> /\ architecture = <<>>
    /\ optErr = NoErr /\ unvisited = {}
    /\ text = <<>> /\ caller = "" /\ input = <<>> /\ b = <<>>
    /\ parts = <<>> /\ imgErr = ""

\* A call of a JobManager method that takes the user only.
ManagerCall(method) == [Method |-> method]

\* The request of a command without arguments.
Bare(command, channel) ==
    [NoRequest EXCEPT !.command = command, !.channel = channel]

MustDirect == "you must direct message me this request"

\* The manager calls the notifier jobResponder returned, with a Job by value.
JobResponder ==
    /\ pc = "listening"
    /\ \E j \in Jobs, now \in Times :
        /\ delivered' = j
        /\ clock' = now
        /\ IF Len(j.RequestedChannel) = 0 \/ Len(j.RequestedBy) = 0
           THEN job' = NoJob /\ replies' = <<>> /\ uploads' = <<>>
           ELSE IF pendingJob(j)
           THEN job' = NoJob /\ replies' = <<>> /\ uploads' = <<>>
           ELSE /\ job' = j
                /\ replies' = notifyJob(j, now).replies
                /\ uploads' = notifyJob(j, now).uploads
    /\ path' = "feed"
    /\ pc' = "notified"
    /\ UNCHANGED <<optVars, textVars, cmdVars>>

\* The auth command, sent on a channel that is no direct message.
AuthNotDirect ==
    /\ pc = "listening"
    /\ \E channel \in Channels \ {<<>>}, now \in Times :
        /\ ~isDirectMessage(channel)
        /\ request' = Bare("auth", channel)
        /\ clock' = now
        /\ replies' = <<Message(MustDirect)>>
    /\ calls' = <<>>
    /\ delivered' = NoJob /\ job' = NoJob /\ uploads' = <<>>
    /\ path' = "auth"
    /\ pc' = "notified"
    /\ UNCHANGED <<optVars, textVars, from, to, readers>>

\* The auth command by direct message, GetLaunchJob returning an error.
AuthNoJob ==
    /\ pc = "listening"
    /\ \E channel \in Channels, now \in Times :
        /\ isDirectMessage(channel)
        /\ request' = Bare("auth", channel)
        /\ clock' = now
        /\ replies' = <<Message("GetLaunchJob error")>>
    /\ calls' = <<ManagerCall("GetLaunchJob")>>
    /\ delivered' = NoJob /\ job' = NoJob /\ uploads' = <<>>
    /\ path' = "auth"
    /\ pc' = "notified"
    /\ UNCHANGED <<optVars, textVars, from, to, readers>>

\* The auth command by direct message, GetLaunchJob returning a Job: the
\* requested channel is set to the command's and notifyJob is called.
AuthJobClearsRequester ==
    /\ pc = "listening"
    /\ \E channel \in Channels, j \in Jobs, now \in Times :
        /\ isDirectMessage(channel)
        /\ request' = Bare("auth", channel)
        /\ clock' = now
        /\ delivered' = j
        /\ LET mine == [j EXCEPT !.RequestedChannel = channel, !.RequestedBy = ""]
           IN  /\ job' = mine
               /\ replies' = notifyJob(mine, now).replies
               /\ uploads' = notifyJob(mine, now).uploads
    /\ calls' = <<ManagerCall("GetLaunchJob")>>
    /\ path' = "auth"
    /\ pc' = "notified"
    /\ UNCHANGED <<optVars, textVars, from, to, readers>>
AuthJob ==
    /\ pc = "listening"
    /\ \E channel \in Channels, j \in Jobs, now \in Times :
        /\ isDirectMessage(channel)
        /\ request' = Bare("auth", channel)
        /\ clock' = now
        /\ delivered' = j
        /\ LET mine == [j EXCEPT !.RequestedChannel = channel]
           IN  /\ job' = mine
               /\ replies' = notifyJob(mine, now).replies
               /\ uploads' = notifyJob(mine, now).uploads
    /\ calls' = <<ManagerCall("GetLaunchJob")>>
    /\ path' = "auth"
    /\ pc' = "notified"
    /\ UNCHANGED <<optVars, textVars, from, to, readers>>

\* The handler has returned; the bot listens for the next event.
Listen ==
    /\ pc = "notified"
    /\ pc' = "listening"
    /\ delivered' = NoJob /\ job' = NoJob /\ path' = "" /\ clock' = 0
    /\ replies' = <<>> /\ uploads' = <<>>
    /\ request' = NoRequest /\ calls' = <<>>
    /\ UNCHANGED <<optVars, textVars, from, to, readers>>

NextNotify == JobResponder \/ AuthNotDirect \/ AuthNoJob \/ AuthJob \/ Listen

SpecNotify == InitNotify /\ [][NextNotify]_vars

----------------------------------------------------------------------------
(* Claims about the notification path (checked under SpecNotify).          *)

\* notifyJob was called on job, and the handler has returned.
Rendered == pc = "notified" /\ job # NoJob

ReadyUpload(u) ==
    /\ u.InitialComment.kind = "Your cluster is ready"
    /\ u.Content = job.Credentials
    /\ u.Channels = <<job.RequestedChannel>>

\* C7 (as claimed): a launch-mode job with credentials, whatever its failure
\* reason, gets the ready message with floor((ExpiresAt - now)/minute) minutes
\* and exactly one credentials upload.
C7_ReadyWheneverCredentials ==
    (Rendered /\ isLaunchMode(job) /\ job.Credentials # "") =>
        /\ Len(uploads) = 1
        /\ ReadyUpload(uploads[1])
        /\ uploads[1].InitialComment.minutes = (job.ExpiresAt - clock) \div Minute

\* C7 (amended): a launch-mode job with credentials and no failure reason,
\* whatever its URL, status and legacy flag, gets exactly one credentials
\* upload whose comment is the ready message, the minute count being
\* (ExpiresAt - now)/minute truncated toward zero (the floor when the job
\* has not expired), and no other text than the legacy warning.
C7_ReadyWhenCredentialsAndNoFailure ==
    (Rendered /\ isLaunchMode(job) /\ job.Credentials # "" /\ job.Failure = "") =>
        LET left == job.ExpiresAt - clock
            m == uploads[1].InitialComment.minutes
        IN  /\ Len(uploads) = 1
            /\ ReadyUpload(uploads[1])
            /\ left >= 0 => (m * Minute <= left /\ left < (m + 1) * Minute)
            /\ left < 0 => (m * Minute >= left /\ left > (m - 1) * Minute)
            /\ replies = IF job.LegacyConfig THEN <<LegacyWarning>> ELSE <<>>

\* A ready job that expired a fraction of a minute ago was rendered.
C7_Witness ==
    /\ Rendered
    /\ isLaunchMode(job)
    /\ job.Credentials # ""
    /\ job.Failure = ""
    /\ job.ExpiresAt - clock = -1
    /\ Len(uploads) = 1

PendingLaunch(j) == isLaunchMode(j) /\ j.Credentials = "" /\ j.Failure = ""

\* C8 (as claimed): for a launch-mode job with neither credentials nor
\* failure nothing is emitted, on the feed and on the auth command alike.
C8_PendingLaunchSilentEverywhere ==
    (pc = "notified" /\ PendingLaunch(delivered)) =>
        replies = <<>> /\ uploads = <<>>

\* C8 (amended): for a launch-mode job with neither credentials nor failure
\* the notification feed emits nothing; the auth command, which calls
\* notifyJob without that filter, answers "cluster is still starting" (after
\* the legacy warning when the flag is set) and uploads nothing.
C8_PendingLaunchSilentOnFeed ==
    (pc = "notified" /\ PendingLaunch(delivered)) =>
        /\ path = "feed" => replies = <<>> /\ uploads = <<>>
        /\ path = "auth" =>
             /\ uploads = <<>>
             /\ Len(replies) = IF delivered.LegacyConfig THEN 2 ELSE 1
             /\ delivered.LegacyConfig => replies[1] = LegacyWarning
             /\ replies[Len(replies)].kind =
                    IF delivered.URL # "" THEN "cluster is still starting (logs)"
                                          ELSE "cluster is still starting"

\* The feed delivered a pending launch job that has a channel, a user and a
\* report URL, and nothing was said.
C8_Witness ==
    /\ pc = "notified"
    /\ path = "feed"
    /\ PendingLaunch(delivered)
    /\ delivered.RequestedChannel # <<>>
    /\ delivered.RequestedBy # ""
    /\ delivered.URL # ""
    /\ replies = <<>>

\* C9: a non-launch job with a report URL and success status gets exactly the
\* hyperlinked "succeeded" message and nothing of the running branch: no
\* second message, no upload, credentials or not.
C9_SucceededOnly ==
    (Rendered /\ ~isLaunchMode(job) /\ job.URL # "" /\ job.State = SuccessState) =>
        /\ replies = <<[Message("job succeeded")
                           EXCEPT !.url = job.URL, !.msg = job.OriginalMessage]>>
        /\ uploads = <<>>

\* A succeeded test job that carries credentials was rendered.
C9_Witness ==
    /\ Rendered
    /\ ~isLaunchMode(job)
    /\ job.URL # ""
    /\ job.State = SuccessState
    /\ job.Credentials # ""
    /\ Len(replies) = 1

\* C10 (as claimed): every delivered Job snapshot yields at most one chat
\* message and at most one attachment.
C10_AtMostOneMessage ==
    pc = "notified" => Len(replies) <= 1 /\ Len(uploads) <= 1

\* C10 (amended): every delivered Job snapshot yields at most one attachment
\* and at most one chat message, except that a launch-mode job with the
\* legacy flag gets the warning as a separate first message: two outputs.
\* In all, one output at most besides the warning.
C10_AtMostOneBesidesWarning ==
    pc = "notified" =>
        LET warned == Rendered /\ isLaunchMode(job) /\ job.LegacyConfig
        IN  /\ Len(uploads) <= 1
            /\ Len(replies) <= IF warned THEN 2 ELSE 1
            /\ Len(replies) + Len(uploads) <= IF warned THEN 2 ELSE 1
            /\ warned => replies[1] = LegacyWarning

\* A failed legacy launch job was rendered: the warning and the failure.
C10_Witness ==
    /\ Rendered
    /\ isLaunchMode(job)
    /\ job.LegacyConfig
    /\ Len(replies) = 2
    /\ replies[1] = LegacyWarning
    /\ replies[2].failure = job.Failure

----------------------------------------------------------------------------
(* The command handlers that submit a JobRequest: src/slack.go 38-412.     *)

JobTypeInstall == "install"
JobTypeUpgrade == "upgrade"
JobTypeBuild == "build"

\* The test suites the bot names in its help (owned by configuration).
supportedTests == << <<"e2e">>, <<"e2e", "-serial">> >>

\* m[k] of a Go map: the zero value when the key is absent.
get(m, k) == IF k \in DOMAIN m THEN m[k] ELSE <<>>

\* m[k] = v
put(m, k, v) == [x \in DOMAIN m \cup {k} |-> IF x = k THEN v ELSE m[x]]

\* strings.Contains(s, "-upgrade"), on a sequence of lexemes.
ContainsUpgrade(s) == \E i \in 1..Len(s) : s[i] = "-upgrade"

\* The JobRequest literal, as far as the handlers compute it (OriginalMessage
\* and User are copied from the event and are left out).
JobRequest(inputs, type, channel, plat, arch, jobParams, workflowName) ==
    [Inputs |-> inputs, Type |-> type, Channel |-> channel, Platform |-> plat,
     JobParams |-> jobParams, Architecture |-> arch,
     WorkflowName |-> workflowName]

\* The handler replied and returned before parseOptions.
stop(kind) == [replies |-> <<Message(kind)>>, from |-> <<>>, to |-> <<>>, go |-> FALSE]

\* The handler goes on to parseOptions with these replies and input lists.
proceed(rs, f, t) == [replies |-> rs, from |-> f, to |-> t, go |-> TRUE]

\* The handler replied and returned after parseOptions.
reject(kind) == [replies |-> <<Message(kind)>>, calls |-> <<>>]

\* The handler reached manager.LaunchJobForUser with this request.
submit(req) == [replies |-> <<>>, calls |-> <<req>>]

NotDirect == "this command is only accepted via direct message"

\* launch, lines 46-61: the channel gate and the input list.
launchInputs(req) ==
    LET r == parseImageInput(req.image)
    IN  IF ~isDirectMessage(req.channel) THEN stop(NotDirect)
        ELSE IF r.err # "" THEN stop(r.err)
        ELSE proceed(<<>>, r.parts, <<>>)

\* launch, lines 58-82: inputs, the option error, the test check, the request.
launchRequest(req, f, t, st) ==
    LET inputs == IF Len(f) > 0 THEN <<f>> ELSE <<>>
    IN  IF st.err # NoErr THEN reject(st.err.msg)
        ELSE IF Len(get(st.params, <<"test">>)) > 0
        THEN reject("Test arguments may not be passed from the launch command")
        ELSE submit(JobRequest(inputs, JobTypeInstall, req.channel, st.platform,
                               st.architecture, st.params, <<>>))

\* test upgrade, lines 170-194: the channel gate, from, to and its default.
testUpgradeInputsKeepsTo(req) ==
    LET r == parseImageInput(req.image)
        r2 == parseImageInput(req.to)
    IN  IF ~isDirectMessage(req.channel) THEN stop(NotDirect)
        ELSE IF r.err # "" THEN stop(r.err)
        ELSE IF Len(r.parts) = 0
        THEN stop("you must specify an image to upgrade from and to")
        ELSE IF r2.err # "" THEN stop(r2.err)
        ELSE proceed(<<>>, r.parts, r2.parts)
testUpgradeInputs(req) ==
    LET r == parseImageInput(req.image)
        r2 == parseImageInput(req.to)
    IN  IF ~isDirectMessage(req.channel) THEN stop(NotDirect)
        ELSE IF r.err # "" THEN stop(r.err)
        ELSE IF Len(r.parts) = 0
        THEN stop("you must specify an image to upgrade from and to")
        ELSE IF r2.err # "" THEN stop(r2.err)
        ELSE proceed(<<>>, r.parts, IF Len(r2.parts) = 0 THEN r.parts ELSE r2.parts)

\* test upgrade, lines 196-219: the option error, the default suite, the
\* "-upgrade" check, the request.
testUpgradeRequestAnySuite(req, f, t, st) ==
    LET v == get(st.params, <<"test">>)
        jobParams == IF Len(v) = 0
                     THEN put(st.params, <<"test">>, <<"e2e", "-upgrade">>)
                     ELSE st.params
    IN  IF st.err # NoErr THEN reject(st.err.msg)
        ELSE submit(JobRequest(<<f, t>>, JobTypeUpgrade, req.channel, st.platform,
                               st.architecture, jobParams, <<>>))
testUpgradeRequest(req, f, t, st) ==
    LET v == get(st.params, <<"test">>)
        jobParams == IF Len(v) = 0
                     THEN put(st.params, <<"test">>, <<"e2e", "-upgrade">>)
                     ELSE st.params
    IN  IF st.err # NoErr THEN reject(st.err.msg)
        ELSE IF ~ContainsUpgrade(get(jobParams, <<"test">>))
        THEN reject("Only upgrade type tests may be run from this command")
        ELSE submit(JobRequest(<<f, t>>, JobTypeUpgrade, req.channel, st.platform,
                               st.architecture, jobParams, <<>>))

\* test, lines 231-256: the channel gate, the input list, the name check
\* (which replies and goes on) and the custom-name warning.
testInputs(req) ==
    LET r == parseImageInput(req.image)
        unnamed == IF Len(req.name) = 0
                   THEN <<Message("you must specify the name of a test")>>
                   ELSE <<>>
        custom == IF contains(supportedTests, req.name) THEN <<>>
                  ELSE <<Message("warning: You are using a custom test name")>>
    IN  IF ~isDirectMessage(req.channel) THEN stop(NotDirect)
        ELSE IF r.err # "" THEN stop(r.err)
        ELSE IF Len(r.parts) = 0 THEN stop("you must specify what will be tested")
        ELSE proceed(unnamed \o custom, r.parts, <<>>)

\* test, lines 258-279: the option error, params["test"] = test, the
\* "-upgrade" check, the request.
testRequest(req, f, t, st) ==
    LET jobParams == put(st.params, <<"test">>, req.name)
    IN  IF st.err # NoErr THEN reject(st.err.msg)
        ELSE IF ContainsUpgrade(get(jobParams, <<"test">>))
        THEN reject("Upgrade type tests require the 'test upgrade' command")
        ELSE submit(JobRequest(<<f>>, JobTypeTest, req.channel, st.platform,
                               st.architecture, jobParams, <<>>))

\* build, lines 291-306: the channel gate and the input list.
buildInputsAllowsEmpty(req) ==
    LET r == parseImageInput(req.image)
    IN  IF ~isDirectMessage(req.channel) THEN stop(NotDirect)
        ELSE IF r.err # "" THEN stop(r.err)
        ELSE proceed(<<>>, r.parts, <<>>)
buildInputs(req) ==
    LET r == parseImageInput(req.image)
    IN  IF ~isDirectMessage(req.channel) THEN stop(NotDirect)
        ELSE IF r.err # "" THEN stop(r.err)
        ELSE IF Len(r.parts) = 0
        THEN stop("you must specify at least one pull request to build a release image")
        ELSE proceed(<<>>, r.parts, <<>>)

\* build, lines 308-323: the option error and the request.
buildRequest(req, f, t, st) ==
    IF st.err # NoErr THEN reject(st.err.msg)
    ELSE submit(JobRequest(<<f>>, JobTypeBuild, req.channel, st.platform,
                           st.architecture, st.params, <<>>))

\* The arguments the commands are tried with.
ImageTexts ==
    { <<>>, <<" ">>, <<"a">>, <<"a", ",", "a">>, <<"a", ",", ",", "a">>,
      <<" ", "<", "a", "|", "a", ">">> }
ToTexts == { <<>>, <<" ">>, <<"b">>, <<"b", ",">> }
TestNames == { <<>>, <<"e2e">>, <<"e2e", "-upgrade">>, <<"custom">> }
CommandOptions ==
    { <<>>, <<"gcp">>, <<"test">>, <<"test", "=">>, <<"test", "=", "e2e">>,
      <<"test", "=", "e2e", "-upgrade">>, <<"bogus">>, <<"gcp", ",", "aws">>,
      <<"aws", ",", "arm64", ",", "test", "=", "e2e">> }

Requests(command, names, tos, opts) ==
    { [NoRequest EXCEPT !.command = command, !.channel = c, !.name = n,
                        !.image = i, !.to = t, !.options = o] :
        c \in Channels, n \in names, i \in ImageTexts, t \in tos, o \in opts }

\* A handler is called with req and runs up to its parseOptions call (r.go)
\* or to a reply and return.
Begin(req, r) ==
    /\ pc = "listening"
    /\ request' = req
    /\ replies' = r.replies
    /\ from' = r.from
    /\ to' = r.to
    /\ IF r.go
       THEN pc' = "parseOptions" /\ options' = req.options
       ELSE pc' = "handled" /\ UNCHANGED options
    /\ UNCHANGED <<params, platform, architecture, optErr, unvisited, textVars,
                   delivered, job, path, clock, uploads, calls, readers>>

\* parseOptions has returned: the handler runs to its end.  r holds either a
\* reply, or the request for manager.LaunchJobForUser, whose error or message
\* is replied.
Finish(command, r) ==
    /\ pc = "optionsDone"
    /\ request.command = command
    /\ calls' = calls \o r.calls
    /\ IF r.calls = <<>>
       THEN replies' = replies \o r.replies
       ELSE \E kind \in {"manager error", "manager message"} :
                replies' = Append(replies, Message(kind))
    /\ pc' = "handled"
    /\ UNCHANGED <<optVars, textVars, delivered, job, path, clock, uploads,
                   request, from, to, readers>>

LaunchBegin ==
    /\ pc = "listening"
    /\ \E req \in Requests("launch", {<<>>}, {<<>>}, CommandOptions) :
         Begin(req, launchInputs(req))
LaunchFinish == Finish("launch", launchRequest(request, from, to, optState))

TestUpgradeBegin ==
    /\ pc = "listening"
    /\ \E req \in Requests("test upgrade", {<<>>}, ToTexts, CommandOptions) :
         Begin(req, testUpgradeInputs(req))
TestUpgradeFinish ==
    Finish("test upgrade", testUpgradeRequest(request, from, to, optState))

TestBegin ==
    /\ pc = "listening"
    /\ \E req \in Requests("test", TestNames, {<<>>}, CommandOptions) :
         Begin(req, testInputs(req))
TestFinish == Finish("test", testRequest(request, from, to, optState))

\* The build pattern has no options slot: StringParam("options", "") is "".
BuildBegin ==
    /\ pc = "listening"
    /\ \E req \in Requests("build", {<<>>}, {<<>>}, {<<>>}) :
         Begin(req, buildInputs(req))
BuildFinish == Finish("build", buildRequest(request, from, to, optState))

\* strings.Index(s, sep) for a separator of several characters.
IndexStr(s, sep) ==
    LET at(i) == i + Len(sep) <= Len(s) /\ SubSeq(s, i + 1, i + Len(sep)) = sep
    IN  IF \E i \in 0..Len(s) : at(i)
        THEN CHOOSE i \in 0..Len(s) : at(i) /\ \A j \in 0..(i-1) : ~at(j)
        ELSE -1

\* strings.Split(s, sep) for a separator of several characters.
RECURSIVE SplitStr(_, _)
SplitStr(s, sep) ==
    LET i == IndexStr(s, sep)
    IN  IF i = -1 THEN <<s>>
        ELSE <<Slice(s, 0, i)>> \o SplitStr(SliceFrom(s, i + Len(sep)), sep)

\* strings.TrimPrefix(s, c) and strings.TrimSuffix(s, c) for a one-character c.
TrimPrefix(s, c) == IF s # <<>> /\ s[1] = c THEN Tail(s) ELSE s
TrimSuffix(s, c) == IF s # <<>> /\ s[Len(s)] = c THEN SubSeq(s, 1, Len(s) - 1) ELSE s

Quote == "\""

\* b.workflowConfig.Workflows (owned by the configuration loader).
Workflows ==
    (<<"w1">> :> [Platform |-> <<"azure">>, Architecture |-> <<>>]) @@
    (<<"w2">> :> [Platform |-> <<"gcp">>, Architecture |-> <<"arm64">>]) @@
    (<<"w3">> :> [Platform |-> <<"aws">>, Architecture |-> <<"s390x">>])

\* workflow-launch, lines 335-356: the channel gate, the input list, the name.
workflowLaunchInputs(req) ==
    LET r == parseImageInput(req.image)
    IN  IF ~isDirectMessage(req.channel) THEN stop(NotDirect)
        ELSE IF r.err # "" THEN stop(r.err)
        ELSE IF Len(r.parts) = 0 THEN stop("you must specify what will be tested")
        ELSE IF Len(req.name) = 0
        THEN stop("you must specify the name of a workflow")
        ELSE proceed(<<>>, r.parts, <<>>)

\* workflow-launch, lines 357-374, after RLock: the lookup.  reply is the
\* text of a reply-and-return, RUnlock says whether line 374 was reached.
workflowLookupAnyArchitecture(name) ==
    IF name \notin DOMAIN Workflows
    THEN [reply |-> "Workflow not in workflow list", platform |-> <<>>,
          architecture |-> <<"amd64">>, RUnlock |-> FALSE]
    ELSE LET workflow == Workflows[name]
         IN  [reply |-> "", platform |-> workflow.Platform,
              architecture |-> IF workflow.Architecture # <<>>
                               THEN workflow.Architecture ELSE <<"amd64">>,
              RUnlock |-> TRUE]
workflowLookup(name) ==
    IF name \notin DOMAIN Workflows
    THEN [reply |-> "Workflow not in workflow list", platform |-> <<>>,
          architecture |-> <<"amd64">>, RUnlock |-> FALSE]
    ELSE LET workflow == Workflows[name]
         IN  IF workflow.Architecture # <<>>
                /\ ~contains(supportedArchitectures, workflow.Architecture)
             THEN [reply |-> "Architecture not supported by cluster-bot",
                   platform |-> workflow.Platform,
                   architecture |-> <<"amd64">>, RUnlock |-> FALSE]
             ELSE [reply |-> "", platform |-> workflow.Platform,
                   architecture |-> IF workflow.Architecture # <<>>
                                    THEN workflow.Architecture ELSE <<"amd64">>,
                   RUnlock |-> TRUE]

\* workflow-launch, lines 376-384: the pieces of the parameter string.
splitParams(parameters) ==
    IF Len(parameters) > 0
    THEN LET sp == SplitStr(parameters, <<Quote, ",", Quote>>)
             first == [sp EXCEPT ![1] = TrimPrefix(@, Quote)]
         IN  [first EXCEPT ![Len(first)] = TrimSuffix(@, Quote)]
    ELSE <<>>

\* workflow-launch, lines 385-393: the loop over the pieces, from jobParams m.
RECURSIVE jobParamsOfFirstEquals(_, _)
jobParamsOfFirstEquals(pieces, m) ==
    IF pieces = <<>> THEN [jobParams |-> m, ok |-> TRUE]
    ELSE LET split == SplitN2(pieces[1], "=")
         IN  IF Len(split) # 2 THEN [jobParams |-> m, ok |-> FALSE]
             ELSE jobParamsOfFirstEquals(Tail(pieces), put(m, split[1], split[2]))
RECURSIVE jobParamsOf(_, _)
jobParamsOf(pieces, m) ==
    IF pieces = <<>> THEN [jobParams |-> m, ok |-> TRUE]
    ELSE LET split == Split(pieces[1], "=")
         IN  IF Len(split) # 2 THEN [jobParams |-> m, ok |-> FALSE]
             ELSE jobParamsOf(Tail(pieces), put(m, split[1], split[2]))

\* workflow-launch, lines 360-405: the lookup, the parameters, the request.
workflowLaunchRequest(req, f, t, st) ==
    LET w == workflowLookup(req.name)
        p == jobParamsOf(splitParams(req.parameters), <<>>)
    IN  IF w.reply # "" THEN reject(w.reply)
        ELSE IF ~p.ok THEN reject("Unable to interpret as a parameter")
        ELSE submit(JobRequest(<<f>>, JobTypeWorkflowLaunch, req.channel,
                               w.platform, w.architecture, p.jobParams, req.name))

\* The parameter strings: pieces joined by the separator, with or without
\* the opening and the closing quote.
Pieces ==
    { <<"A", "=", "b">>, <<"A", "=", "c">>, <<"B", "=", "b">>, <<"A">>,
      <<"A", "=", "b", "=", "c">> }
Wrap(lead, ps, trail) ==
    (IF lead THEN <<Quote>> ELSE <<>>) \o Join(ps, <<Quote, ",", Quote>>)
        \o (IF trail THEN <<Quote>> ELSE <<>>)
ParameterTexts ==
    { Wrap(lead, ps, trail) :
        lead \in BOOLEAN, ps \in SeqsUpTo(Pieces, MaxPieces), trail \in BOOLEAN }
WorkflowNames == { <<>>, <<"w1">>, <<"w2">>, <<"w3">>, <<"nope">> }
WorkflowImages == { <<>>, <<"a">>, <<"a", ",", "a">> }
WorkflowRequests ==
    { [NoRequest EXCEPT !.command = "workflow-launch", !.channel = c,
                        !.name = n, !.image = i, !.parameters = ps] :
        c \in Channels, n \in WorkflowNames, i \in WorkflowImages,
        ps \in ParameterTexts }

\* The workflow-launch handler up to b.workflowConfig.mutex.RLock(), line 359,
\* or to a reply and return.
WorkflowLaunchBegin ==
    /\ pc = "listening"
    /\ \E req \in WorkflowRequests :
         LET r == workflowLaunchInputs(req)
         IN  /\ request' = req
             /\ replies' = r.replies
             /\ from' = r.from
             /\ to' = r.to
             /\ IF r.go
                THEN /\ readers < MaxHeld
                     /\ readers' = readers + 1
                     /\ pc' = "RLock"
                ELSE pc' = "handled" /\ UNCHANGED readers
    /\ UNCHANGED <<optVars, textVars, delivered, job, path, clock, uploads, calls>>

\* The workflow-launch handler from line 360 to its end; RUnlock, line 374,
\* is on the path that goes on to the parameters.
WorkflowLaunchFinish ==
    /\ pc = "RLock"
    /\ LET r == workflowLaunchRequest(request, from, to, optState)
       IN  /\ readers' = IF workflowLookup(request.name).RUnlock
                         THEN readers - 1 ELSE readers
           /\ calls' = calls \o r.calls
           /\ IF r.calls = <<>>
              THEN replies' = replies \o r.replies
              ELSE \E kind \in {"manager error", "manager message"} :
                       replies' = Append(replies, Message(kind))
    /\ pc' = "handled"
    /\ UNCHANGED <<optVars, textVars, delivered, job, path, clock, uploads,
                   request, from, to>>

\* The handler has returned; the bot waits for the next command.  Read locks
\* that were not released stay held.
CommandReturn ==
    /\ pc = "handled"
    /\ pc' = "listening"
    /\ request' = NoRequest /\ from' = <<>> /\ to' = <<>> /\ calls' = <<>>
    /\ replies' = <<>>
    /\ options' = <<>> /\ params' = <<>> /\ platform' = <<>>
    /\ architecture' = <<>> /\ optErr' = NoErr /\ unvisited' = {}
    /\ UNCHANGED <<textVars, delivered, job, path, clock, uploads, readers>>

InitCommands ==
    /\ pc = "listening"
    /\ request = NoRequest /\ from = <<>> /\ to = <<>> /\ calls = <<>>
    /\ readers = 0
    /\ options = <<>> /\ params = <<>> /\ platform = <<>> /\ architecture = <<>>
    /\ optErr = NoErr /\ unvisited = {}
    /\ text = <<>> /\ caller = "" /\ input = <<>> /\ b = <<>>
    /\ parts = <<>> /\ imgErr = ""
    /\ delivered = NoJob /\ job = NoJob /\ path = "" /\ clock = 0
    /\ replies = <<>> /\ uploads = <<>>

NextCommands ==
    \/ LaunchBegin \/ LaunchFinish
    \/ TestUpgradeBegin \/ TestUpgradeFinish
    \/ TestBegin \/ TestFinish
    \/ BuildBegin \/ BuildFinish
    \/ WorkflowLaunchBegin \/ WorkflowLaunchFinish
    \/ ParseOptionsBegin \/ ParseOptionsLoop \/ ParseOptionsReturn
    \/ CommandReturn

SpecCommands == InitCommands /\ [][NextCommands]_vars

\* refresh (116-128) and done (133-145): the channel gate, the manager call,
\* its error or its message.
userCommand(channel, method) ==
    IF ~isDirectMessage(channel)
    THEN [calls |-> <<>>, kinds |-> {MustDirect}]
    ELSE [calls |-> <<ManagerCall(method)>>,
          kinds |-> {"manager error", "manager message"}]

UserCommand(command, method) ==
    /\ pc = "listening"
    /\ \E channel \in Channels :
         LET r == userCommand(channel, method)
         IN  /\ request' = Bare(command, channel)
             /\ calls' = r.calls
             /\ \E kind \in r.kinds : replies' = <<Message(kind)>>
    /\ pc' = "handled"
    /\ UNCHANGED <<optVars, textVars, delivered, job, path, clock, uploads,
                   from, to, readers>>

Refresh == UserCommand("refresh", "SyncJobForUser")
Done == UserCommand("done", "TerminateJobForUser")

\* Every command that is accepted by direct message only.
NextGated ==
    \/ NextCommands
    \/ Refresh \/ Done
    \/ AuthNotDirect \/ AuthNoJob \/ AuthJob \/ Listen

SpecGated == InitCommands /\ [][NextGated]_vars

\* The status output of a launch-mode job: what follows the legacy warning.
StatusReplies == IF job.LegacyConfig THEN Tail(replies) ELSE replies

LaunchKinds ==
    { "WARNING: using legacy template based job",
      "your cluster failed to launch (logs)", "your cluster failed to launch",
      "cluster is still starting (logs)", "cluster is still starting" }

\* C16: for a launch-mode job the status output is that of the first
\* matching case of: failure and URL, failure, no credentials and URL, no
\* credentials, ready with attachment; failure wins over credentials, and no
\* text of the non-launch branches is ever sent.
C16_LaunchFirstMatch ==
    (Rendered /\ isLaunchMode(job)) =>
        /\ job.LegacyConfig => (replies # <<>> /\ replies[1] = LegacyWarning)
        /\ \A i \in 1..Len(replies) : replies[i].kind \in LaunchKinds
        /\ IF job.Failure # "" /\ job.URL # ""
           THEN /\ uploads = <<>>
                /\ Len(StatusReplies) = 1
                /\ StatusReplies[1].kind = "your cluster failed to launch (logs)"
                /\ StatusReplies[1].failure = job.Failure
                /\ StatusReplies[1].url = job.URL
           ELSE IF job.Failure # ""
           THEN /\ uploads = <<>>
                /\ Len(StatusReplies) = 1
                /\ StatusReplies[1].kind = "your cluster failed to launch"
                /\ StatusReplies[1].failure = job.Failure
           ELSE IF job.Credentials = "" /\ job.URL # ""
           THEN /\ uploads = <<>>
                /\ Len(StatusReplies) = 1
                /\ StatusReplies[1].kind = "cluster is still starting (logs)"
                /\ StatusReplies[1].url = job.URL
           ELSE IF job.Credentials = ""
           THEN /\ uploads = <<>>
                /\ Len(StatusReplies) = 1
                /\ StatusReplies[1].kind = "cluster is still starting"
           ELSE /\ StatusReplies = <<>>
                /\ Len(uploads) = 1
                /\ ReadyUpload(uploads[1])

\* A launch job with a failure reason and credentials was rendered: the
\* failure text and no attachment.
C16_Witness ==
    /\ Rendered
    /\ isLaunchMode(job)
    /\ job.Failure # ""
    /\ job.Credentials # ""
    /\ uploads = <<>>
    /\ replies # <<>>
    /\ replies[Len(replies)].failure = job.Failure

\* The running/progress output of a non-launch job without report URL.
RunningOutputNoURL ==
    IF job.Credentials = ""
    THEN /\ uploads = <<>>
         /\ Len(replies) = 1
         /\ replies[1].kind = "job is running (launched minutes ago)"
    ELSE /\ replies = <<>>
         /\ Len(uploads) = 1
         /\ uploads[1].InitialComment.kind = "Your job has started a cluster"

\* The hyperlinked terminal texts go out only with a report URL.
LinkedTerminalNeedsURL ==
    \A i \in 1..Len(replies) :
        replies[i].kind \in {"job failed", "job succeeded"} => job.URL # ""

\* C17 (as claimed): a non-launch job with no report URL is always rendered
\* by the running/progress branch, whatever its status.
C17_NoURLAlwaysRunning ==
    (Rendered /\ ~isLaunchMode(job) /\ job.URL = "") =>
        RunningOutputNoURL /\ LinkedTerminalNeedsURL

\* C17 (amended): a non-launch job with no report URL is rendered by the
\* running/progress branch only when its status is not terminal; with status
\* failure, aborted or error it gets the single text "job ... failed, but no
\* details could be retrieved", with status success "job ... succeded, but no
\* details could be retrieved", and no attachment.  The hyperlinked failed /
\* succeeded texts go out only with a report URL.
C17_NoURLTerminalWithoutDetails ==
    (Rendered /\ ~isLaunchMode(job)) =>
        /\ LinkedTerminalNeedsURL
        /\ job.URL = "" =>
             IF job.State \in {FailureState, AbortedState, ErrorState}
             THEN /\ uploads = <<>>
                  /\ Len(replies) = 1
                  /\ replies[1].kind = "job failed, but no details could be retrieved"
                  /\ replies[1].msg = job.OriginalMessage
             ELSE IF job.State = SuccessState
             THEN /\ uploads = <<>>
                  /\ Len(replies) = 1
                  /\ replies[1].kind = "job succeded, but no details could be retrieved"
                  /\ replies[1].msg = job.OriginalMessage
             ELSE RunningOutputNoURL

\* A failed test job without report URL, with credentials, was rendered.
C17_Witness ==
    /\ Rendered
    /\ ~isLaunchMode(job)
    /\ job.URL = ""
    /\ job.State = FailureState
    /\ job.Credentials # ""
    /\ Len(replies) = 1
    /\ replies[1].kind = "job failed, but no details could be retrieved"

----------------------------------------------------------------------------
(* Claims about the command handlers (checked under SpecCommands).        *)

\* The handler under way has returned.
Handled == pc = "handled"

\* The texts that report a parse or validation failure.
FailureKinds ==
    { ErrEmptyItem,
      "you must specify an image to upgrade from and to",
      "you must specify what will be tested",
      "you must specify at least one pull request to build a release image",
      "you must specify the name of a test",
      "you must specify the name of a workflow",
      ErrOnePlatform.msg, ErrOneArchitecture.msg, "unrecognized option",
      "Test arguments may not be passed from the launch command",
      "Only upgrade type tests may be run from this command",
      "Upgrade type tests require the 'test upgrade' command",
      "Workflow not in workflow list",
      "Architecture not supported by cluster-bot",
      "Unable to interpret as a parameter" }

\* C11: in every handler, a reply that reports a parse or validation failure
\* is the last thing the handler does: no reply follows it and no JobRequest
\* is given to LaunchJobForUser.
C11_FailureReplyEndsHandling ==
    \A i \in 1..Len(replies) :
        replies[i].kind \in FailureKinds => (i = Len(replies) /\ calls = <<>>)

\* The value the option string of the request gives to the key test.
RequestedTest == get(paramsFromAnnotation(request.options).values, <<"test">>)

\* C12: every request of test upgrade has a test parameter that contains
\* "-upgrade", which is "e2e-upgrade" when the options give none or an empty
\* one; every request of test has the test parameter equal to the name
\* argument, and it does not contain "-upgrade".
C12_SuiteShape ==
    \A i \in 1..Len(calls) :
        LET jp == calls[i].JobParams
        IN  /\ calls[i].Type = JobTypeUpgrade =>
                /\ <<"test">> \in DOMAIN jp
                /\ ContainsUpgrade(jp[<<"test">>])
                /\ jp[<<"test">>] = IF RequestedTest = <<>>
                                    THEN <<"e2e", "-upgrade">> ELSE RequestedTest
            /\ calls[i].Type = JobTypeTest =>
                /\ <<"test">> \in DOMAIN jp
                /\ jp[<<"test">>] = request.name
                /\ ~ContainsUpgrade(jp[<<"test">>])

\* test upgrade with the option "test=" was submitted with the default suite.
C12_Witness ==
    /\ Handled
    /\ request.command = "test upgrade"
    /\ request.options = <<"test", "=">>
    /\ Len(calls) = 1
    /\ calls[1].JobParams[<<"test">>] = <<"e2e", "-upgrade">>

\* C13: no request of launch has the key test in its parameter mapping,
\* whatever value the options give it, the empty value included.
C13_LaunchNeverCarriesTest ==
    \A i \in 1..Len(calls) :
        calls[i].Type = JobTypeInstall => <<"test">> \notin DOMAIN calls[i].JobParams

\* The commands with one target, and the check of the input argument.
SingleTarget == {"launch", "test", "build", "workflow-launch"}
SingleTargetTypes ==
    {JobTypeInstall, JobTypeTest, JobTypeBuild, JobTypeWorkflowLaunch}
OneGroup(req) == Len(req.Inputs) = 1 /\ req.Inputs[1] # <<>>

\* C14 (as claimed): every request of launch, test, build and workflow-launch
\* has exactly one input group, which is not empty, and a command whose input
\* is empty or all whitespace submits nothing.
C14_OneGroupEverywhere ==
    /\ \A i \in 1..Len(calls) :
           calls[i].Type \in SingleTargetTypes => OneGroup(calls[i])
    /\ (Handled /\ request.command \in SingleTarget /\ AllSpace(request.image))
           => calls = <<>>

\* C14 (amended): every request of test, build and workflow-launch has exactly
\* one input group, which is not empty, and these commands submit nothing when
\* the input is empty or all whitespace; launch accepts an empty or
\* all-whitespace input and then submits a request with no input group, and
\* otherwise a request with one group, which is not empty.
C14_OneGroupExceptBareLaunch ==
    /\ \A i \in 1..Len(calls) :
           /\ calls[i].Type \in SingleTargetTypes \ {JobTypeInstall}
                  => OneGroup(calls[i])
           /\ calls[i].Type = JobTypeInstall =>
                  IF AllSpace(request.image) THEN calls[i].Inputs = <<>>
                  ELSE OneGroup(calls[i])
    /\ (Handled /\ request.command \in SingleTarget \ {"launch"}
           /\ AllSpace(request.image)) => calls = <<>>

\* launch with an all-whitespace input was submitted with no input group.
C14_Witness ==
    /\ Handled
    /\ request.command = "launch"
    /\ request.image = <<" ">>
    /\ Len(calls) = 1
    /\ calls[1].Inputs = <<>>

\* C15: test upgrade submits nothing when from is empty or all whitespace;
\* every request it submits has the two groups from, to in that order, from
\* not empty, to being the parsed to list, or from when the to argument is
\* empty or all whitespace.
C15_UpgradeInputs ==
    /\ (Handled /\ request.command = "test upgrade" /\ AllSpace(request.image))
           => calls = <<>>
    /\ \A i \in 1..Len(calls) :
           calls[i].Type = JobTypeUpgrade =>
               /\ Len(calls[i].Inputs) = 2
               /\ calls[i].Inputs[1] = parseImageInput(request.image).parts
               /\ calls[i].Inputs[1] # <<>>
               /\ calls[i].Inputs[2] =
                      IF AllSpace(request.to) THEN calls[i].Inputs[1]
                      ELSE parseImageInput(request.to).parts
               /\ calls[i].Inputs[2] # <<>>

\* test upgrade with an all-whitespace to argument was submitted with to = from.
C15_Witness ==
    /\ Handled
    /\ request.command = "test upgrade"
    /\ request.to = <<" ">>
    /\ Len(calls) = 1
    /\ calls[1].Inputs = << <<"a">>, <<"a">> >>

\* C18: whenever a handler has returned, no read lock of the workflow
\* configuration is held (so that a writer is never kept waiting for good).
C18_ReadLockReleased == pc \in {"handled", "listening"} => readers = 0

\* The architecture allowed for a declared workflow architecture.
Declared(name) == Workflows[name].Architecture
Allowed(name) ==
    Declared(name) = <<>> \/ contains(supportedArchitectures, Declared(name))

\* C19: workflow-launch submits only for a workflow of the configuration map;
\* the request has the platform of the workflow, the architecture "amd64"
\* when the workflow declares none and the declared one when it is in the
\* allow-list; an unknown workflow, or a declared architecture outside the
\* allow-list, submits nothing.
C19_WorkflowLookup ==
    /\ \A i \in 1..Len(calls) :
           calls[i].Type = JobTypeWorkflowLaunch =>
               LET name == calls[i].WorkflowName
               IN  /\ name = request.name
                   /\ name \in DOMAIN Workflows
                   /\ calls[i].Platform = Workflows[name].Platform
                   /\ Allowed(name)
                   /\ calls[i].Architecture =
                          IF Declared(name) = <<>> THEN <<"amd64">>
                          ELSE Declared(name)
    /\ (Handled /\ request.command = "workflow-launch"
           /\ (request.name \notin DOMAIN Workflows \/ ~Allowed(request.name)))
           => calls = <<>>

\* A workflow that declares arm64 was submitted on its platform with arm64.
C19_Witness ==
    /\ Handled
    /\ request.command = "workflow-launch"
    /\ request.name = <<"w2">>
    /\ Len(calls) = 1
    /\ calls[1].Platform = <<"gcp">>
    /\ calls[1].Architecture = <<"arm64">>

\* The handler got as far as the parameter string.
ReachedParameters ==
    /\ Handled
    /\ request.command = "workflow-launch"
    /\ isDirectMessage(request.channel)
    /\ from # <<>>
    /\ request.name \in DOMAIN Workflows
    /\ Allowed(request.name)

\* A piece with exactly one "=", its key and its value.
Equals(p) == {i \in 1..Len(p) : p[i] = "="}
KeyValue(p) == Cardinality(Equals(p)) = 1
KeyOf(p) == SubSeq(p, 1, (CHOOSE i \in Equals(p) : TRUE) - 1)
ValueOf(p) == SubSeq(p, (CHOOSE i \in Equals(p) : TRUE) + 1, Len(p))

\* The mapping of a list of KEY=VALUE pieces, the last piece of a key winning.
LastWins(ps) ==
    [k \in {KeyOf(ps[i]) : i \in 1..Len(ps)} |->
        ValueOf(ps[CHOOSE i \in 1..Len(ps) :
                      /\ KeyOf(ps[i]) = k
                      /\ \A j \in (i+1)..Len(ps) : KeyOf(ps[j]) # k])]

\* C20: for a parameter string made of pieces joined by "," between quotes,
\* with or without the opening and the closing quote: when every piece has
\* exactly one "=" the request holds exactly the KEY -> VALUE pairs, the last
\* of a repeated key winning; when some piece has none or several, or the
\* string is only quotes, the command replies and submits nothing; the empty
\* string gives the empty mapping.
C20_ParameterParsing ==
    ReachedParameters =>
        \A lead \in BOOLEAN, trail \in BOOLEAN, ps \in SeqsUpTo(Pieces, MaxPieces) :
            request.parameters = Wrap(lead, ps, trail) =>
                IF request.parameters = <<>>
                THEN Len(calls) = 1 /\ DOMAIN calls[1].JobParams = {}
                ELSE IF ps # <<>> /\ \A i \in 1..Len(ps) : KeyValue(ps[i])
                THEN Len(calls) = 1 /\ calls[1].JobParams = LastWins(ps)
                ELSE /\ calls = <<>>
                     /\ replies = <<Message("Unable to interpret as a parameter")>>

\* The quoted string "A=b","A=c" was submitted as A -> c.
C20_Witness ==
    /\ ReachedParameters
    /\ request.parameters = Wrap(TRUE, << <<"A", "=", "b">>, <<"A", "=", "c">> >>, TRUE)
    /\ Len(calls) = 1
    /\ calls[1].JobParams = (<<"A">> :> <<"c">>)

----------------------------------------------------------------------------
(* Claims about the Job snapshot (checked under SpecNotify).               *)

\* C21 (as claimed): the Job that was rendered is, field by field, the Job
\* the manager handed over, on the feed and in the auth command alike (stated
\* for a Job that has a requested channel).
C21_JobNeverWritten ==
    (Rendered /\ delivered.RequestedChannel # <<>>) => job = delivered

\* C21 (amended): the feed handler and the rendering leave every field of the
\* Job as the manager handed it over; the auth command writes one field, the
\* requested channel, which it sets to the (direct-message) channel of the
\* command before rendering, and leaves every other field unchanged.
C21_OnlyAuthWritesChannel ==
    Rendered =>
        /\ path = "feed" => job = delivered
        /\ path = "auth" =>
              /\ [job EXCEPT !.RequestedChannel = delivered.RequestedChannel]
                     = delivered
              /\ isDirectMessage(job.RequestedChannel)
              /\ \A i \in 1..Len(uploads) :
                     uploads[i].Channels = <<job.RequestedChannel>>

\* auth, asked on another channel than the one the cluster was requested on:
\* the Job that was rendered has the channel of the command, and the
\* credentials went there.
C21_Witness ==
    /\ Rendered
    /\ path = "auth"
    /\ delivered.RequestedChannel = <<"D", "2">>
    /\ job.RequestedChannel = <<"D", "1">>
    /\ Len(uploads) = 1
    /\ uploads[1].Channels = << <<"D", "1">> >>

----------------------------------------------------------------------------
(* Claims about the direct-message gate (checked under SpecGated).         *)

\* The channel id starts with "D".
StartsWithD(channel) == channel # <<>> /\ Head(channel) = "D"

GatedCommands ==
    { "launch", "test upgrade", "test", "build", "workflow-launch", "refresh",
      "done", "auth" }

\* C22: a command of the gated ones that arrives on a channel whose id does
\* not start with "D" is answered by exactly one rejection reply and makes no
\* call of the JobManager and no upload; the uploads of auth go to the channel
\* of the command, which is a direct-message channel.
C22_NotDirectRejected ==
    /\ (request.command \in GatedCommands /\ ~StartsWithD(request.channel)) =>
           /\ pc \in {"handled", "notified"}
           /\ replies \in {<<Message(NotDirect)>>, <<Message(MustDirect)>>}
           /\ calls = <<>>
           /\ uploads = <<>>
           /\ delivered = NoJob
    /\ request.command = "auth" =>
           \A i \in 1..Len(uploads) :
               /\ uploads[i].Channels = <<request.channel>>
               /\ StartsWithD(request.channel)

\* auth arrived on a public channel and was turned away.
C22_Witness ==
    /\ pc = "notified"
    /\ request = Bare("auth", <<"C", "1">>)
    /\ replies = <<Message(MustDirect)>>
    /\ calls = <<>>
    /\ uploads = <<>>

====
